---- MODULE Spec2Model ----
(***************************************************************************)
(* kranger: a dual-pane terminal file browser.  The model follows the tick *)
(* loop of App::run (input -> update -> display) over a small fixed file   *)
(* tree.  update() is split at the places where the code itself advances:  *)
(* the relisting prologue, one step per drained event, the child sweep.    *)
(***************************************************************************)
EXTENDS Integers, Sequences, FiniteSets, TLC

(* ---------------------------------------------------------------------- *)
(* Bounds                                                                  *)
(* ---------------------------------------------------------------------- *)
\* number of bound key presses and input errors the environment delivers
MaxKeys == 3
\* number of tracked children above which the OS refuses another spawn
MaxChildren == 2
\* calls of App::msg in a run of MsgSpec
MaxMsgs == 8
\* largest self.height and longest pane or preview a run of RowsSpec draws
MaxHeight == 15
MaxLines == 15
\* longest string and largest max_length a run of TruncSpec draws
MaxStr == 5
MaxBudget == 6
\* most children of the directory a run of ListSpec lists
MaxEntries == 4
\* longest file a run of ClassSpec classifies, in bytes
MaxFile == 4
\* calls of add_keybinding after the defaults in a run of KeySpec
MaxAdds == 3
\* largest terminal a run of SizeSpec reports
MaxColumns == 90
MaxRows == 20

(* ---------------------------------------------------------------------- *)
(* Option values: None is the empty sequence, Some(x) the one-element one  *)
(* ---------------------------------------------------------------------- *)
NoneV == <<>>
Some(x) == <<x>>
IsSome(o) == Len(o) = 1
Unwrap(o) == o[1]

(* ---------------------------------------------------------------------- *)
(* File names are sequences of byte values, paths are sequences of names   *)
(* (the empty path is the filesystem root "/")                             *)
(* ---------------------------------------------------------------------- *)
Dot == 46
n_hid == <<Dot, 104>>      \* ".h"
n_git == <<Dot, 103>>      \* ".g"
n_a == <<97>>              \* "a"
n_b == <<98>>              \* "b"
n_c == <<99>>              \* "c"
n_d == <<100>>             \* "d"
n_f == <<102>>             \* "f"
n_i == <<105>>             \* "i"
n_k == <<107>>             \* "k"
n_l == <<108>>             \* "l"
n_m == <<109>>             \* "m"
n_p == <<112>>             \* "p"
n_s == <<115>>             \* "s"
n_v == <<118>>             \* "v"
n_backslash == <<92>>      \* "\"

Root == <<>>

\* The file tree the browser runs on.  ftype is what the directory walk
\* reports for the entry, info the classification Info::new gives a regular
\* file, isdir what Path::is_dir answers (it follows symbolic links), and
\* link the directory a symbolic link leads to.
\*   /c/         an empty directory
\*   /d/         b (an ELF binary), f (a binary blob), l (a link to a file),
\*               p (a fifo)
\*   /m/         i (an image), s (a sound file), v (a video)
\*   /.h/        .g (a text file)
\*   /a          a text file
\*   /k          a link to /c
FS ==
  { [dir |-> Root,      name |-> n_c,   ftype |-> "Directory", info |-> "Directory",  isdir |-> TRUE,  link |-> NoneV],
    [dir |-> Root,      name |-> n_d,   ftype |-> "Directory", info |-> "Directory",  isdir |-> TRUE,  link |-> NoneV],
    [dir |-> Root,      name |-> n_m,   ftype |-> "Directory", info |-> "Directory",  isdir |-> TRUE,  link |-> NoneV],
    [dir |-> Root,      name |-> n_hid, ftype |-> "Directory", info |-> "Directory",  isdir |-> TRUE,  link |-> NoneV],
    [dir |-> Root,      name |-> n_a,   ftype |-> "File",      info |-> "Text",       isdir |-> FALSE, link |-> NoneV],
    [dir |-> Root,      name |-> n_k,   ftype |-> "Link",      info |-> "Link",       isdir |-> TRUE,  link |-> Some(<<n_c>>)],
    [dir |-> <<n_d>>,   name |-> n_b,   ftype |-> "File",      info |-> "Executable", isdir |-> FALSE, link |-> NoneV],
    [dir |-> <<n_d>>,   name |-> n_f,   ftype |-> "File",      info |-> "Unknown",    isdir |-> FALSE, link |-> NoneV],
    [dir |-> <<n_d>>,   name |-> n_l,   ftype |-> "Link",      info |-> "Link",       isdir |-> FALSE, link |-> NoneV],
    [dir |-> <<n_d>>,   name |-> n_p,   ftype |-> "Unknown",   info |-> "Unknown",    isdir |-> FALSE, link |-> NoneV],
    [dir |-> <<n_m>>,   name |-> n_i,   ftype |-> "File",      info |-> "Image",      isdir |-> FALSE, link |-> NoneV],
    [dir |-> <<n_m>>,   name |-> n_s,   ftype |-> "File",      info |-> "Audio",      isdir |-> FALSE, link |-> NoneV],
    [dir |-> <<n_m>>,   name |-> n_v,   ftype |-> "File",      info |-> "Video",      isdir |-> FALSE, link |-> NoneV],
    [dir |-> <<n_hid>>, name |-> n_git, ftype |-> "File",      info |-> "Text",       isdir |-> FALSE, link |-> NoneV] }

\* directories the process can be started in (std::env::current_dir)
StartDirs == { Root, <<n_c>>, <<n_d>>, <<n_m>>, <<n_hid>> }

Join(dir, name) == Append(dir, name)

EntryAt(path) ==
  IF path = Root THEN {}
  ELSE { f \in FS : f.dir = SubSeq(path, 1, Len(path) - 1) /\ f.name = path[Len(path)] }

\* Path::is_dir
is_dir(path) == path = Root \/ \E f \in EntryAt(path) : f.isdir

\* the directory a walk rooted at path reads (a root symlink is followed)
WalkRoot(path) ==
  IF \E f \in EntryAt(path) : IsSome(f.link)
    THEN Unwrap((CHOOSE f \in EntryAt(path) : IsSome(f.link)).link)
    ELSE path

(* ---------------------------------------------------------------------- *)
(* file.rs                                                                 *)
(* ---------------------------------------------------------------------- *)
\* str::cmp on names: byte-wise lexicographic, a proper prefix is smaller
RECURSIVE NameLess(_, _)
NameLess(a, b) ==
  IF b = <<>> THEN FALSE
  ELSE IF a = <<>> THEN TRUE
  ELSE IF a[1] # b[1] THEN a[1] < b[1]
  ELSE NameLess(Tail(a), Tail(b))

\* OsStr::to_str: the name as a string when its bytes are UTF-8.  The names
\* used here hold ASCII bytes and 0xFF, a byte no UTF-8 string contains.
to_str(name) ==
  IF \A i \in 1..Len(name) : name[i] < 128 THEN Some(name) ELSE NoneV

\* U+FFFD in UTF-8
Replacement == << 239, 191, 189 >>

\* OsStr::to_string_lossy: every byte that is not UTF-8 becomes U+FFFD
RECURSIVE to_string_lossy(_)
to_string_lossy(name) ==
  IF name = <<>> THEN <<>>
  ELSE (IF Head(name) < 128 THEN << Head(name) >> ELSE Replacement)
         \o to_string_lossy(Tail(name))

is_hidden(name) ==
  IF IsSome(to_str(name))
    THEN Len(Unwrap(to_str(name))) >= 1 /\ Unwrap(to_str(name))[1] = Dot
    ELSE FALSE

\* the comparator of files.sort_by: Ordering::Less
FileLess(f1, f2) ==
  LET dir1 == f1.ftype = "Directory"
      dir2 == f2.ftype = "Directory"
  IN  IF dir1 /\ dir2 THEN NameLess(f1.name, f2.name)
      ELSE IF dir1 /\ ~dir2 THEN TRUE
      ELSE IF ~dir1 /\ dir2 THEN FALSE
      ELSE NameLess(f1.name, f2.name)

RECURSIVE SortFiles(_)
SortFiles(S) ==
  IF S = {} THEN <<>>
  ELSE LET m == CHOOSE x \in S : \A y \in S \ {x} : FileLess(x, y)
       IN  <<m>> \o SortFiles(S \ {m})

\* the filter, the map and the sort of directory_contents over the entries
\* the walk yields
list_entries(walked, show_hidden) ==
  LET kept == { f \in walked : show_hidden \/ ~is_hidden(f.name) }
  IN  SortFiles({ [ftype |-> f.ftype, name |-> to_string_lossy(f.name)] :
                  f \in kept })

directory_contents(path, show_hidden) ==
  list_entries({ f \in FS : f.dir = WalkRoot(path) /\ is_dir(path) },
               show_hidden)

(* ---------------------------------------------------------------------- *)
(* usize values are held in their two's-complement signed reading: a       *)
(* negative model value v stands for the machine word 2^64 + v, so -1 is   *)
(* usize::MAX.  The casts `as i32` and `as usize` are then the identity on *)
(* the values reached here, and unsigned order is UsizeLess.               *)
(* ---------------------------------------------------------------------- *)
UsizeLess(a, b) ==
  IF (a < 0) = (b < 0) THEN a < b ELSE b < 0

\* Vec::get
Get(v, i) == IF i >= 0 /\ i < Len(v) THEN Some(v[i + 1]) ELSE NoneV

(* ---------------------------------------------------------------------- *)
(* State                                                                   *)
(* ---------------------------------------------------------------------- *)
VARIABLES
  current_directory,           \* PathBuf
  current_selection,           \* usize
  selected_item,               \* Option<PathBuf>
  selection_info,              \* Option<Info>, by its info_type
  current_directory_contents,  \* Vec<File>
  parent_directory_contents,   \* Vec<File>
  should_run,
  directory_changed,
  show_hidden,
  new_events,                  \* Vec<ApplicationEvent>, each stamped on push
  events,                      \* the local `events` being drained in update()
  debug_messages,              \* Vec<String>
  children,                    \* Vec<Child>: pid, "running" or "exited", media
  terminal,                    \* "interactive" or "released"
  pc,                          \* position in App::run
  stamp,                       \* number of events pushed so far
  processed,                   \* the events handled so far, in that order
  keys,                        \* bound key presses and input errors so far
  outcome,                     \* how this tick's last external command came back
  classified,                  \* classifications (Info values) computed so far
  synthesized,                 \* viewer events pushed by NavigateDown: stamp and item
  key_read,                    \* input() pushed a key event in the tick being updated
  arg,                         \* inputs of the function under check
  ret                          \* Option of its result

vars == << current_directory, current_selection, selected_item, selection_info,
           current_directory_contents, parent_directory_contents, should_run,
           directory_changed, show_hidden, new_events, events, debug_messages,
           children, terminal, pc, stamp, processed, keys, outcome, classified,
           synthesized, key_read, arg, ret >>


(* ---------------------------------------------------------------------- *)
(* main.rs                                                                 *)
(* ---------------------------------------------------------------------- *)
msg_late(buf, m) == (IF Len(buf) > 6 THEN Tail(buf) ELSE buf) \o <<m>>

\* App::msg: the buffer keeps at most 6 lines, the oldest is dropped first
msg(buf, m) == (IF Len(buf) > 5 THEN Tail(buf) ELSE buf) \o <<m>>

\* App::new
Constructed ==
  /\ current_directory \in StartDirs
  /\ current_selection = 0
  /\ selected_item = NoneV
  /\ selection_info = NoneV
  /\ current_directory_contents = <<>>
  /\ parent_directory_contents = <<>>
  /\ should_run = TRUE
  /\ directory_changed = TRUE
  /\ show_hidden = FALSE
  /\ new_events = <<>>
  /\ events = <<>>
  /\ debug_messages = <<>>
  /\ children = <<>>
  /\ terminal = "interactive"
  /\ pc = "input"
  /\ stamp = 0
  /\ processed = <<>>
  /\ keys = 0
  /\ outcome = NoneV
  /\ classified = 0
  /\ synthesized = {}
  /\ key_read = FALSE

Init ==
  /\ Constructed
  /\ arg = NoneV
  /\ ret = NoneV

(* ---------------------------------------------------------------------- *)
(* input.rs                                                                *)
(* ---------------------------------------------------------------------- *)
\* App::add_default_keybindings
DefaultKeybindings ==
  [ k \in { "Esc", "Ctrl+c", "a", "d", "w", "s", "Left", "Right", "Up", "Down",
            "h", "f", "p", "q" } |->
      CASE k \in { "Esc", "Ctrl+c" } -> "Close"
        [] k \in { "a", "Left" }     -> "NavigateUp"
        [] k \in { "d", "Right" }    -> "NavigateDown"
        [] k \in { "w", "Up" }       -> "SelectPrevious"
        [] k \in { "s", "Down" }     -> "SelectNext"
        [] k = "h"                   -> "ToggleShowHidden"
        [] k = "f"                   -> "OpenImage"
        [] k = "p"                   -> "PlayMedia"
        [] k = "q"                   -> "DebugEvent" ]

\* keys the terminal can deliver; "z" is bound to nothing
Keys == DOMAIN DefaultKeybindings \cup { "z" }

\* App::resolve_keybinding
resolve_keybinding(key) ==
  IF key \in DOMAIN DefaultKeybindings THEN Some(DefaultKeybindings[key]) ELSE NoneV

PushFront(q, e) == << [ev |-> e, id |-> stamp + 1] >> \o q

\* Vec::push on the event queue; the stamp records the order of the pushes
Push(q, e) == Append(q, [ev |-> e, id |-> stamp + 1])

\* App::input together with the error arm of App::run
Input ==
  /\ pc = "input"
  /\ \/ \* poll() timed out, or the event read is not a key event
        /\ UNCHANGED << new_events, stamp, keys, debug_messages >>
        /\ key_read' = FALSE
     \/ \* a key event was read
        /\ keys < MaxKeys
        /\ \E key \in Keys :
             LET r == resolve_keybinding(key)
             IN  IF IsSome(r)
                   THEN /\ new_events' = Push(new_events, Unwrap(r))
                        /\ stamp' = stamp + 1
                        /\ keys' = keys + 1
                        /\ key_read' = TRUE
                   ELSE /\ UNCHANGED << new_events, stamp, keys >>
                        /\ key_read' = FALSE
        /\ UNCHANGED debug_messages
     \/ \* poll() or read() failed
        /\ keys < MaxKeys
        /\ keys' = keys + 1
        /\ debug_messages' = msg(debug_messages, "input error")
        /\ key_read' = FALSE
        /\ UNCHANGED << new_events, stamp >>
  /\ pc' = "update"
  /\ UNCHANGED << current_directory, current_selection, selected_item,
                  selection_info, current_directory_contents,
                  parent_directory_contents, should_run, directory_changed,
                  show_hidden, events, children, terminal, processed >>
  /\ UNCHANGED << outcome, classified, synthesized, arg, ret >>

(* ---------------------------------------------------------------------- *)
(* update.rs                                                               *)
(* ---------------------------------------------------------------------- *)
\* App::parent_directory: ancestors().nth(1)
parent_directory_self(dir) == Some(dir)

parent_directory(dir) ==
  IF Len(dir) >= 1 THEN Some(SubSeq(dir, 1, Len(dir) - 1)) ELSE NoneV

\* Info::new(path).info_type for a regular file
InfoNew(path) == (CHOOSE f \in EntryAt(path) : TRUE).info

\* App::update_selected_item: the new selected_item and selection_info
update_selected_item(contents, sel, dir, info) ==
  LET got == Get(contents, sel)
  IN  IF IsSome(got)
        THEN LET item == Unwrap(got)
                 path == Join(dir, item.name)
             IN  CASE item.ftype = "File" ->
                        [selected_item |-> Some(path), selection_info |-> Some(InfoNew(path)),
                         classified |-> 1]
                   [] item.ftype = "Directory" ->
                        [selected_item |-> Some(path), selection_info |-> Some("Directory"),
                         classified |-> 1]
                   [] item.ftype = "Link" ->
                        [selected_item |-> Some(path), selection_info |-> Some("Link"),
                         classified |-> 1]
                   [] item.ftype = "Unknown" ->
                        [selected_item |-> NoneV, selection_info |-> info,
                         classified |-> 0]
        ELSE [selected_item |-> NoneV, selection_info |-> info, classified |-> 0]

\* the `if self.directory_changed` block of App::update: the fields it sets
relist_stale_parent(dir, hidden, info) ==
  LET contents == directory_contents(dir, hidden)
      usi      == update_selected_item(contents, 0, dir, info)
  IN  [current_directory_contents |-> contents,
       parent_directory_contents  |-> directory_contents(dir, hidden),
       directory_changed          |-> FALSE,
       current_selection          |-> 0,
       selected_item              |-> usi.selected_item,
       selection_info             |-> usi.selection_info,
       classified                 |-> usi.classified]

relist(dir, hidden, info) ==
  LET contents == directory_contents(dir, hidden)
      parent   == IF IsSome(parent_directory(dir))
                    THEN Unwrap(parent_directory(dir))
                    ELSE <<n_backslash>>
      usi      == update_selected_item(contents, 0, dir, info)
  IN  [current_directory_contents |-> contents,
       parent_directory_contents  |-> directory_contents(parent, hidden),
       directory_changed          |-> FALSE,
       current_selection          |-> 0,
       selected_item              |-> usi.selected_item,
       selection_info             |-> usi.selection_info,
       classified                 |-> usi.classified]

mem_clone(q) == [taken |-> q, left |-> q]

\* std::mem::take: the value moved out, and the default left in its place
mem_take(q) == [taken |-> q, left |-> <<>>]

\* the prologue of App::update up to the take of the queue
UpdateBegin ==
  /\ pc = "update"
  /\ IF directory_changed
       THEN LET r == relist(current_directory, show_hidden, selection_info)
            IN  /\ current_directory_contents' = r.current_directory_contents
                /\ parent_directory_contents' = r.parent_directory_contents
                /\ directory_changed' = r.directory_changed
                /\ current_selection' = r.current_selection
                /\ selected_item' = r.selected_item
                /\ selection_info' = r.selection_info
                /\ classified' = classified + r.classified
       ELSE UNCHANGED << current_directory_contents, parent_directory_contents,
                         directory_changed, current_selection, selected_item,
                         selection_info, classified >>
  /\ events' = mem_take(new_events).taken
  /\ new_events' = mem_take(new_events).left
  /\ pc' = "events"
  /\ UNCHANGED << current_directory, should_run, show_hidden, debug_messages,
                  children, terminal, stamp, processed, keys >>
  /\ UNCHANGED << outcome, synthesized, key_read, arg, ret >>

\* events.drain(..): the event handled next and the ones left after it
DrainLast(ev) == [event |-> ev[Len(ev)], rest |-> SubSeq(ev, 1, Len(ev) - 1)]

Drain(ev) == [event |-> Head(ev), rest |-> Tail(ev)]

Handling(e) == pc = "events" /\ events # <<>> /\ Drain(events).event.ev = e

\* the event has been handled: the loop goes on with the next one
Handled ==
  /\ events' = Drain(events).rest
  /\ processed' = Append(processed, Drain(events).event)
  /\ pc' = "events"

\* a panic unwinds out of update() and ends the process
Panic ==
  /\ pc' = "panicked"
  /\ UNCHANGED << current_directory, current_selection, selected_item,
                  selection_info, current_directory_contents,
                  parent_directory_contents, should_run, directory_changed,
                  show_hidden, new_events, events, debug_messages, children,
                  terminal, stamp, processed, keys >>
  /\ UNCHANGED << outcome, classified, synthesized, key_read, arg, ret >>

CloseIgnored ==
  /\ Handling("Close")
  /\ Handled
  /\ UNCHANGED << current_directory, current_selection, selected_item,
                  selection_info, current_directory_contents,
                  parent_directory_contents, should_run, directory_changed,
                  show_hidden, new_events, debug_messages, children, terminal,
                  stamp, keys >>
  /\ UNCHANGED << outcome, classified, synthesized, key_read, arg, ret >>

Close ==
  /\ Handling("Close")
  /\ should_run' = FALSE
  /\ Handled
  /\ UNCHANGED << current_directory, current_selection, selected_item,
                  selection_info, current_directory_contents,
                  parent_directory_contents, directory_changed, show_hidden,
                  new_events, debug_messages, children, terminal, stamp, keys >>
  /\ UNCHANGED << outcome, classified, synthesized, key_read, arg, ret >>

\* App::navigate_up with App::change_directory
navigate_up(dir) ==
  LET parent == parent_directory(dir)
  IN  IF IsSome(parent)
        THEN [ok |-> TRUE, current_directory |-> Unwrap(parent), changed |-> TRUE,
              err |-> ""]
        ELSE [ok |-> FALSE, current_directory |-> dir, changed |-> FALSE,
              err |-> "Error: No parent directory available"]

NavigateUp ==
  /\ Handling("NavigateUp")
  /\ LET r == navigate_up(current_directory)
     IN  /\ current_directory' = r.current_directory
         /\ directory_changed' = (directory_changed \/ r.changed)
         /\ debug_messages' = IF r.ok THEN debug_messages
                                      ELSE msg(debug_messages, r.err)
  /\ Handled
  /\ UNCHANGED << current_selection, selected_item, selection_info,
                  current_directory_contents, parent_directory_contents,
                  should_run, show_hidden, new_events, children, terminal,
                  stamp, keys >>
  /\ UNCHANGED << outcome, classified, synthesized, key_read, arg, ret >>

\* App::navigate_down with App::change_directory
navigate_down_unmarked(dir, item) ==
  IF ~IsSome(item)
    THEN [ok |-> FALSE, current_directory |-> dir, changed |-> FALSE,
          err |-> "Error: No item selected!"]
  ELSE IF is_dir(Unwrap(item))
    THEN [ok |-> TRUE, current_directory |-> Unwrap(item), changed |-> FALSE,
          err |-> ""]
  ELSE [ok |-> FALSE, current_directory |-> dir, changed |-> FALSE,
        err |-> "Error: Selected item is not a directory!"]

navigate_down(dir, item) ==
  IF ~IsSome(item)
    THEN [ok |-> FALSE, current_directory |-> dir, changed |-> FALSE,
          err |-> "Error: No item selected!"]
  ELSE IF is_dir(Unwrap(item))
    THEN [ok |-> TRUE, current_directory |-> Unwrap(item), changed |-> TRUE,
          err |-> ""]
  ELSE [ok |-> FALSE, current_directory |-> dir, changed |-> FALSE,
        err |-> "Error: Selected item is not a directory!"]

\* the match on info.info_type in the NavigateDown arm: the event pushed
FallbackEvent(info) ==
  CASE info = "Executable" -> Some("OpenExecutable")
    [] info = "Text"       -> Some("OpenText")
    [] info = "Unknown"    -> Some("OpenImage")
    [] info = "Link"       -> NoneV
    [] info = "Image"      -> Some("OpenImage")
    [] info = "Video"      -> Some("PlayMedia")
    [] info = "Audio"      -> Some("PlayMedia")

NavigateDown ==
  /\ Handling("NavigateDown")
  /\ LET r == navigate_down(current_directory, selected_item)
     IN  IF r.ok
           THEN /\ current_directory' = r.current_directory
                /\ directory_changed' = (directory_changed \/ r.changed)
                /\ Handled
                /\ UNCHANGED << new_events, stamp, debug_messages, synthesized >>
         ELSE IF IsSome(selection_info)
           THEN IF Unwrap(selection_info) = "Directory"
                  THEN Panic
                  ELSE /\ IF IsSome(FallbackEvent(Unwrap(selection_info)))
                            THEN /\ new_events' =
                                      Push(new_events,
                                           Unwrap(FallbackEvent(Unwrap(selection_info))))
                                 /\ stamp' = stamp + 1
                                 /\ synthesized' = synthesized \cup
                                      { [id |-> stamp + 1, item |-> selected_item] }
                            ELSE UNCHANGED << new_events, stamp, synthesized >>
                       /\ Handled
                       /\ UNCHANGED << current_directory, directory_changed,
                                       debug_messages >>
         ELSE /\ debug_messages' = msg(debug_messages, r.err)
              /\ Handled
              /\ UNCHANGED << current_directory, directory_changed, new_events,
                              stamp, synthesized >>
  /\ UNCHANGED << current_selection, selected_item, selection_info,
                  current_directory_contents, parent_directory_contents,
                  should_run, show_hidden, children, terminal, keys >>
  /\ UNCHANGED << outcome, classified, key_read, arg, ret >>

\* App::change_selection: the next selection index (should_loop is false)
change_selection_loop(sel, len, change_by) ==
  LET max_selection  == len
      next_selection == sel + change_by
  IN  IF next_selection >= max_selection THEN 0
      ELSE IF next_selection < 0 THEN max_selection - 1
      ELSE next_selection

change_selection(sel, len, change_by) ==
  LET max_selection  == len
      next_selection == sel + change_by
  IN  IF next_selection >= max_selection THEN max_selection - 1
      ELSE IF next_selection < 0 THEN 0
      ELSE next_selection

Select(change_by) ==
  LET next == change_selection(current_selection, Len(current_directory_contents),
                               change_by)
      usi  == update_selected_item(current_directory_contents, next,
                                   current_directory, selection_info)
  IN  /\ current_selection' = next
      /\ selected_item' = usi.selected_item
      /\ selection_info' = usi.selection_info
      /\ classified' = classified + usi.classified
      /\ Handled
      /\ UNCHANGED << current_directory, current_directory_contents,
                      parent_directory_contents, should_run, directory_changed,
                      show_hidden, new_events, debug_messages, children,
                      terminal, stamp, keys >>
      /\ UNCHANGED << outcome, synthesized, key_read, arg, ret >>

SelectNext == Handling("SelectNext") /\ Select(1)

SelectPrevious == Handling("SelectPrevious") /\ Select(-1)

ToggleShowHiddenOnly ==
  /\ Handling("ToggleShowHidden")
  /\ show_hidden' = ~show_hidden
  /\ Handled
  /\ UNCHANGED << current_directory, current_selection, selected_item,
                  selection_info, current_directory_contents,
                  parent_directory_contents, should_run, directory_changed,
                  new_events, debug_messages, children, terminal, stamp, keys >>
  /\ UNCHANGED << outcome, classified, synthesized, key_read, arg, ret >>

ToggleShowHidden ==
  /\ Handling("ToggleShowHidden")
  /\ show_hidden' = ~show_hidden
  /\ directory_changed' = TRUE
  /\ Handled
  /\ UNCHANGED << current_directory, current_selection, selected_item,
                  selection_info, current_directory_contents,
                  parent_directory_contents, should_run, new_events,
                  debug_messages, children, terminal, stamp, keys >>
  /\ UNCHANGED << outcome, classified, synthesized, key_read, arg, ret >>

\* what Command::output can come back with
CommandOutcomes == { "success", "failure", "not spawned" }

run_command_unchecked(buf, o) ==
  LET running == msg(buf, "Running")
  IN  CASE o = "success"     -> running
        [] o = "failure"     -> running
        [] o = "not spawned" -> msg(running, "Error: io")

\* App::run_command followed by the error arm of the event loop: the buffer
\* after the command has come back with outcome o
run_command(buf, o) ==
  LET running == msg(buf, "Running")
  IN  CASE o = "success"     -> running
        [] o = "failure"     -> msg(running, "Error: Executing external command failed")
        [] o = "not spawned" -> msg(running, "Error: io")

\* the arms OpenImage, OpenText and OpenExecutable
Open(e) ==
  /\ Handling(e)
  /\ UNCHANGED << classified, synthesized, key_read, arg, ret >>
  /\ IF ~IsSome(selected_item)
       THEN Panic
       ELSE /\ \E o \in CommandOutcomes :
                 /\ debug_messages' = run_command(debug_messages, o)
                 /\ outcome' = Some(o)
            /\ Handled
            /\ UNCHANGED << current_directory, current_selection, selected_item,
                            selection_info, current_directory_contents,
                            parent_directory_contents, should_run,
                            directory_changed, show_hidden, new_events, children,
                            terminal, stamp, keys >>

OpenImage == Open("OpenImage")

OpenText == Open("OpenText")

OpenExecutable == Open("OpenExecutable")

\* what get_media_length can come back with: ffprobe not spawned, ffprobe
\* failed, no line on its output, a line that is no number, or a duration
\* above or not above 5.0
ProbeOutcomes == { "not spawned", "failure", "no line", "no number", "long", "short" }

\* App::reset_terminal hands the terminal over, App::setup_terminal takes it
\* back
reset_terminal == "released"

setup_terminal == "interactive"

\* App::play_media behind the PlayMedia arm
PlayMedia ==
  /\ Handling("PlayMedia")
  /\ UNCHANGED << classified, synthesized, key_read, arg, ret >>
  /\ IF ~IsSome(selected_item)
       THEN Panic
       ELSE \E probe \in ProbeOutcomes :
            /\ outcome' = Some(probe)
            /\
              CASE probe = "no line" ->
                     \* reset_terminal has run, lines().next().unwrap() panics
                     /\ pc' = "panicked"
                     /\ terminal' = reset_terminal
                     /\ UNCHANGED << current_directory, current_selection,
                                     selected_item, selection_info,
                                     current_directory_contents,
                                     parent_directory_contents, should_run,
                                     directory_changed, show_hidden, new_events,
                                     events, debug_messages, children, stamp,
                                     processed, keys >>
                [] probe \in { "not spawned", "failure", "no number" } ->
                     /\ terminal' = reset_terminal
                     /\ debug_messages' = msg(debug_messages, "Error: ffprobe")
                     /\ Handled
                     /\ UNCHANGED << current_directory, current_selection,
                                     selected_item, selection_info,
                                     current_directory_contents,
                                     parent_directory_contents, should_run,
                                     directory_changed, show_hidden, new_events,
                                     children, stamp, keys >>
                [] probe \in { "long", "short" } ->
                     /\ \/ \* Command::spawn fails
                           /\ terminal' = reset_terminal
                           /\ debug_messages' =
                                msg(msg(debug_messages, "Playing media"), "Error: io")
                           /\ UNCHANGED children
                        \/ \* the player runs as a tracked child
                           /\ Len(children) < MaxChildren
                           /\ terminal' = setup_terminal
                           /\ debug_messages' = msg(debug_messages, "Playing media")
                           /\ children' =
                                Append(children, [pid    |-> Len(processed) + 1,
                                                  status |-> "running",
                                                  media  |-> probe])
                     /\ Handled
                     /\ UNCHANGED << current_directory, current_selection,
                                     selected_item, selection_info,
                                     current_directory_contents,
                                     parent_directory_contents, should_run,
                                     directory_changed, show_hidden, new_events,
                                     stamp, keys >>

DebugEvent ==
  /\ Handling("DebugEvent")
  /\ debug_messages' = msg(debug_messages, "q!!")
  /\ Handled
  /\ UNCHANGED << current_directory, current_selection, selected_item,
                  selection_info, current_directory_contents,
                  parent_directory_contents, should_run, directory_changed,
                  show_hidden, new_events, children, terminal, stamp, keys >>
  /\ UNCHANGED << outcome, classified, synthesized, key_read, arg, ret >>

keep_children_unpolled(cs) == cs

\* the children kept by the sweep: those whose try_wait reports no exit
RECURSIVE keep_children(_)
keep_children(cs) ==
  IF cs = <<>> THEN <<>>
  ELSE IF Head(cs).status = "exited" THEN keep_children(Tail(cs))
  ELSE <<Head(cs)>> \o keep_children(Tail(cs))

\* the tail of App::update, after the queue has been drained
Sweep ==
  /\ pc = "events"
  /\ events = <<>>
  /\ children' = keep_children(children)
  /\ debug_messages' = IF \E i \in 1..Len(children) : children[i].status = "exited"
                         THEN msg(debug_messages, "Child exited")
                         ELSE debug_messages
  /\ pc' = "display"
  /\ UNCHANGED << current_directory, current_selection, selected_item,
                  selection_info, current_directory_contents,
                  parent_directory_contents, should_run, directory_changed,
                  show_hidden, new_events, events, terminal, stamp, processed,
                  keys >>
  /\ outcome' = NoneV
  /\ key_read' = FALSE
  /\ UNCHANGED << classified, synthesized, arg, ret >>

\* App::display, the sleep and the loop test of App::run
Display ==
  /\ pc = "display"
  /\ pc' = IF should_run THEN "input" ELSE "done"
  /\ UNCHANGED << current_directory, current_selection, selected_item,
                  selection_info, current_directory_contents,
                  parent_directory_contents, should_run, directory_changed,
                  show_hidden, new_events, events, debug_messages, children,
                  terminal, stamp, processed, keys >>
  /\ UNCHANGED << outcome, classified, synthesized, key_read, arg, ret >>

\* a spawned player exits on its own; the browser learns of it only in
\* try_wait, so an exit at any point of a tick is taken before that tick's poll
ChildExit ==
  /\ pc = "events"
  /\ \E i \in 1..Len(children) :
       /\ children[i].status = "running"
       /\ children' = [children EXCEPT ![i].status = "exited"]
  /\ UNCHANGED << current_directory, current_selection, selected_item,
                  selection_info, current_directory_contents,
                  parent_directory_contents, should_run, directory_changed,
                  show_hidden, new_events, events, debug_messages, terminal, pc,
                  stamp, processed, keys >>
  /\ UNCHANGED << outcome, classified, synthesized, key_read, arg, ret >>

Next ==
  \/ Input
  \/ UpdateBegin
  \/ Close
  \/ NavigateUp
  \/ NavigateDown
  \/ SelectNext
  \/ SelectPrevious
  \/ ToggleShowHidden
  \/ OpenImage
  \/ OpenText
  \/ OpenExecutable
  \/ PlayMedia
  \/ DebugEvent
  \/ Sweep
  \/ Display
  \/ ChildExit

Spec == Init /\ [][Next]_vars

TypeOK ==
  /\ pc \in { "input", "update", "events", "display", "done", "panicked" }
  /\ Len(debug_messages) <= 6
  /\ terminal \in { "interactive", "released" }

(* ---------------------------------------------------------------------- *)
(* Properties                                                              *)
(* ---------------------------------------------------------------------- *)
N == Len(current_directory_contents)
PendingEvent == Head(events)
\* the step handles the event at the head of the local queue to its end
HandledStep(e) ==
  /\ pc = "events" /\ events # <<>> /\ PendingEvent.ev = e
  /\ processed' # processed
\* the step takes the event at the head of the local queue, to its end or not
TakenStep(e) ==
  /\ pc = "events" /\ events # <<>> /\ PendingEvent.ev = e
  /\ (processed' # processed \/ pc' # pc)
LastHandled == processed[Len(processed)]
EventsOf(q) == [i \in 1..Len(q) |-> q[i].ev]
StampsOf(q) == [i \in 1..Len(q) |-> q[i].id]
MinOf(a, b) == IF a < b THEN a ELSE b
MaxOf(a, b) == IF a > b THEN a ELSE b

\* C1: no event aborts the update loop: whatever the event and the state,
\* update() never panics.
C1_NoEventPanics == pc # "panicked"

\* C2: the selection index always lies in [0, max(0, N-1)], N being the
\* number of entries of the current pane, also for N = 0.
C2_SelectionInRange ==
  /\ ~UsizeLess(current_selection, 0)
  /\ ~UsizeLess(MaxOf(0, N - 1), current_selection)

\* C3: with N >= 1 entries and selection S, SelectNext sets the selection
\* to min(S+1, N-1) and SelectPrevious sets it to max(S-1, 0).
C3_SelectClamps ==
  [][ /\ (HandledStep("SelectNext") /\ N >= 1)
           => current_selection' = MinOf(current_selection + 1, N - 1)
      /\ (HandledStep("SelectPrevious") /\ N >= 1)
           => current_selection' = MaxOf(current_selection - 1, 0) ]_vars

\* C3 witness: three SelectNext in a listing of three entries, the last one
\* handled at the last index, have left the selection on the last index.
C3_ClampedAtLast ==
  /\ EventsOf(processed) = << "SelectNext", "SelectNext", "SelectNext" >>
  /\ N = 3
  /\ current_selection = 2

\* the entry update_selected_item is to select in a fresh listing
FirstEntry(dir, hidden) ==
  LET listing == directory_contents(dir, hidden)
  IN  IF listing = <<>> \/ listing[1].ftype = "Unknown"
        THEN NoneV ELSE Some(listing[1])

\* C4: an update() that starts with directory_changed set relists both panes
\* for the current directory and show_hidden, puts the selection on index 0,
\* recomputes the selected item and its classification and clears the flag,
\* while every event of the tick is still pending.
C4_RelistBeforeEvents ==
  [][ (pc = "update" /\ directory_changed /\ pc' # pc) =>
        /\ current_directory_contents' =
             directory_contents(current_directory, show_hidden)
        /\ parent_directory_contents' =
             IF current_directory = Root THEN <<>>
             ELSE directory_contents(SubSeq(current_directory, 1,
                                            Len(current_directory) - 1),
                                     show_hidden)
        /\ current_selection' = 0
        /\ LET first == FirstEntry(current_directory, show_hidden)
           IN  IF IsSome(first)
                 THEN /\ selected_item' =
                           Some(Join(current_directory, Unwrap(first).name))
                      /\ selection_info' =
                           Some((CHOOSE f \in EntryAt(Unwrap(selected_item')) : TRUE).info)
                 ELSE selected_item' = NoneV
        /\ ~directory_changed'
        /\ pc' = "events"
        /\ events' = new_events
        /\ processed' = processed ]_vars

\* C4 witness: after SelectNext and ToggleShowHidden the next update() has
\* relisted with hidden entries and put the selection back on index 0.
C4_RelistedAfterToggle ==
  /\ EventsOf(processed) = << "SelectNext", "ToggleShowHidden" >>
  /\ pc = "events"
  /\ ~directory_changed
  /\ show_hidden
  /\ N >= 2
  /\ is_hidden(current_directory_contents[1].name)
  /\ current_selection = 0
  /\ selected_item = Some(Join(current_directory, current_directory_contents[1].name))

\* C5: no frame is rendered from a stale listing: directory_changed is false
\* whenever display() runs.
C5_NoStaleFrame == pc = "display" => ~directory_changed

\* C6: NavigateUp moves to the parent and sets directory_changed when there
\* is a parent; at the root it leaves directory, selection and flag alone
\* and appends exactly one error message.
C6_NavigateUp ==
  [][ HandledStep("NavigateUp") =>
        IF current_directory # Root
          THEN /\ current_directory' =
                    SubSeq(current_directory, 1, Len(current_directory) - 1)
               /\ directory_changed'
               /\ debug_messages' = debug_messages
          ELSE /\ current_directory' = current_directory
               /\ current_selection' = current_selection
               /\ directory_changed' = directory_changed
               /\ debug_messages' =
                    msg(debug_messages, "Error: No parent directory available") ]_vars

\* C6 witness: NavigateUp has been handled at the root and left its message.
C6_NavigateUpAtRoot ==
  /\ processed # <<>>
  /\ LastHandled.ev = "NavigateUp"
  /\ current_directory = Root
  /\ ~directory_changed
  /\ debug_messages = << "Error: No parent directory available" >>

\* the selected entry of the current pane is a directory
SelectedDirectory ==
  /\ current_selection >= 0 /\ current_selection < N
  /\ current_directory_contents[current_selection + 1].ftype = "Directory"

\* C7: NavigateDown on a selected directory makes the entry's path (current
\* directory joined with the entry's name) the current directory and sets
\* directory_changed; it pushes no event and appends no message.
C7_NavigateDownDirectory ==
  [][ (TakenStep("NavigateDown") /\ SelectedDirectory) =>
        /\ current_directory' =
             Join(current_directory,
                  current_directory_contents[current_selection + 1].name)
        /\ directory_changed'
        /\ new_events' = new_events
        /\ debug_messages' = debug_messages
        /\ pc' = "events" ]_vars

\* C7 witness: NavigateDown has been handled on a directory: the browser is
\* in the directory that was selected and the flag is set.
C7_Descended ==
  /\ processed # <<>>
  /\ LastHandled.ev = "NavigateDown"
  /\ current_directory # Root
  /\ selected_item = Some(current_directory)
  /\ selection_info = Some("Directory")
  /\ directory_changed
  /\ new_events = <<>>

\* the viewer event that matches a classification, if there is one
MatchingEvent(info) ==
  CASE info = "Text"       -> << "OpenText" >>
    [] info = "Executable" -> << "OpenExecutable" >>
    [] info = "Image"      -> << "OpenImage" >>
    [] info = "Audio"      -> << "PlayMedia" >>
    [] info = "Video"      -> << "PlayMedia" >>
    [] info = "Pdf"        -> << "ReadPdf" >>
    [] OTHER               -> << >>

\* C8: NavigateDown on a selected entry that is not a directory keeps the
\* current directory and pushes exactly the event matching the current
\* classification, none for Link and Unknown.
C8_NavigateDownFallback ==
  [][ ( /\ TakenStep("NavigateDown")
        /\ IsSome(selected_item)
        /\ ~is_dir(Unwrap(selected_item))
        /\ IsSome(selection_info) ) =>
        /\ current_directory' = current_directory
        /\ EventsOf(new_events') =
             EventsOf(new_events) \o MatchingEvent(Unwrap(selection_info)) ]_vars

\* C9: NavigateDown with nothing selected appends one error message, pushes
\* no event and leaves directory, selection and directory_changed alone.
C9_NavigateDownNothingSelected ==
  [][ (TakenStep("NavigateDown") /\ ~IsSome(selected_item)) =>
        /\ debug_messages' = msg(debug_messages, "Error: No item selected!")
        /\ new_events' = new_events
        /\ current_directory' = current_directory
        /\ current_selection' = current_selection
        /\ directory_changed' = directory_changed
        /\ pc' = "events" ]_vars

\* the events handled, then waiting in update(), then waiting in the queue,
\* carry the stamps 1, 2, ... in this order
InPushOrder ==
  StampsOf(processed) \o StampsOf(events) \o StampsOf(new_events)
    = [i \in 1..stamp |-> i]

\* C10: events are handled in the order they were pushed, one at a time; an
\* event pushed by NavigateDown waits behind every pending event, is not
\* handled inside the NavigateDown step, and is handled before any key event
\* pushed later; update() returns only when the events it took are handled.
C10_FifoOrder ==
  /\ [](InPushOrder /\ (pc \in { "input", "update", "display", "done" } => events = <<>>))
  /\ [][ (pc = "events" /\ processed' # processed) =>
           /\ processed' = Append(processed, Head(events))
           /\ events' = Tail(events)
           /\ \E added \in { <<>> } \cup { <<e>> : e \in [ev : { "OpenText", "OpenExecutable", "OpenImage", "PlayMedia" }, id : { stamp + 1 }] } :
                new_events' = new_events \o added ]_vars

\* C10 witness: the event pushed by a NavigateDown and a key event pushed
\* one tick later wait together in update(), the pushed one first.
C10_SynthesizedBeforeKey ==
  /\ pc = "events"
  /\ EventsOf(processed) = << "NavigateDown" >>
  /\ Len(events) = 2
  /\ events[1] = [ev |-> "OpenImage", id |-> 2]
  /\ events[2] = [ev |-> "SelectNext", id |-> 3]

\* C11: ToggleShowHidden always negates show_hidden and sets
\* directory_changed, and nothing else changes show_hidden; the next update()
\* relists the current directory under the new flag and leaves the relist
\* with the selection on index 0.
C11_ToggleShowHidden ==
  [][ /\ TakenStep("ToggleShowHidden") =>
           /\ processed' # processed
           /\ show_hidden' = ~show_hidden
           /\ directory_changed'
      /\ show_hidden' # show_hidden => HandledStep("ToggleShowHidden")
      /\ ( /\ pc = "update" /\ pc' # pc
           /\ processed # <<>> /\ LastHandled.ev = "ToggleShowHidden" ) =>
           /\ current_directory_contents' =
                directory_contents(current_directory, show_hidden)
           /\ current_selection' = 0
           /\ ~directory_changed' ]_vars

\* C11 witness: one ToggleShowHidden from the initial state, and the update()
\* after it has listed the hidden entries with the selection on index 0.
C11_HiddenListed ==
  /\ EventsOf(processed) = << "ToggleShowHidden" >>
  /\ pc = "events"
  /\ show_hidden
  /\ ~directory_changed
  /\ N >= 1
  /\ is_hidden(current_directory_contents[1].name)
  /\ current_selection = 0

\* C12: Close is terminal: the step that handles it clears should_run,
\* nothing sets should_run back, and once it is clear no further tick begins:
\* the loop never returns to input() or to the start of update().
C12_CloseIsTerminal ==
  [][ /\ TakenStep("Close") => (processed' # processed /\ ~should_run')
      /\ ~should_run => (~should_run' /\ pc' \notin { "input", "update" }) ]_vars

\* C12 witness: Close was the last event handled and the loop has been left
\* after the display of that tick.
C12_Closed ==
  /\ processed # <<>>
  /\ LastHandled.ev = "Close"
  /\ ~should_run
  /\ pc = "done"

\* ---------------------------------------------------------------------------
\* App::msg on its own: arg is the log of every message passed to it
\* ---------------------------------------------------------------------------

\* the texts update() passes to App::msg
Messages == { "q!!", "Running", "Child exited" }

MsgInit ==
  /\ Constructed
  /\ current_directory = Root
  /\ arg = <<>>
  /\ ret = NoneV

MsgCall ==
  /\ Len(arg) < MaxMsgs
  /\ \E m \in Messages :
       /\ debug_messages' = msg(debug_messages, m)
       /\ arg' = Append(arg, m)
  /\ UNCHANGED << current_directory, current_selection, selected_item,
                  selection_info, current_directory_contents,
                  parent_directory_contents, should_run, directory_changed,
                  show_hidden, new_events, events, children, terminal, pc,
                  stamp, processed, keys, outcome,
                  classified, synthesized, key_read, ret >>

MsgSpec == MsgInit /\ [][MsgCall]_vars

\* C13: the debug buffer never holds more than 6 entries; a message added to
\* a full buffer evicts the oldest one, so the buffer is always the last
\* min(6, k) of the k messages passed to msg, in the order they were passed,
\* the newest last.
C13_DebugBufferBounded ==
  /\ Len(debug_messages) <= 6
  /\ debug_messages =
       SubSeq(arg, Len(arg) - MinOf(6, Len(arg)) + 1, Len(arg))

\* C13 witness: eight messages were passed, the buffer holds the last six and
\* the first two, both different from the third, are gone.
C13_OldestEvicted ==
  /\ Len(arg) = 8
  /\ arg[1] = "q!!" /\ arg[2] = "Running" /\ arg[3] = "Child exited"
  /\ Len(debug_messages) = 6
  /\ debug_messages[1] = "Child exited"
  /\ debug_messages[6] = arg[8]

\* the events whose arm is a run_command
OpenEvents == { "OpenImage", "OpenText", "OpenExecutable" }

\* the step handles event e, and the command e waits for exits non-zero
FailedCommandStep(e) == HandledStep(e) /\ outcome' = Some("failure")

\* the loop goes on after the step: the rest of the drained queue is pending
LoopContinues ==
  /\ pc' = "events"
  /\ events' = Tail(events)
  /\ should_run' = should_run

\* C14 as stated: an event whose external command exits non-zero adds
\* exactly one message to the debug buffer, and the loop goes on.
C14_OneMessagePerFailure ==
  [][ \A e \in OpenEvents \cup { "PlayMedia" } :
        FailedCommandStep(e) =>
          /\ debug_messages' =
               msg(debug_messages, debug_messages'[Len(debug_messages')])
          /\ LoopContinues ]_vars

\* C14 amended: an event whose run_command exits non-zero adds the "Running"
\* message and then exactly one error message, two in all; a PlayMedia whose
\* ffprobe exits non-zero adds exactly one error message; in both cases the
\* event's result is that error and the remaining queued events are still
\* processed.
C14_OneErrorPerFailure ==
  [][ /\ \A e \in OpenEvents :
           FailedCommandStep(e) =>
             /\ debug_messages' =
                  msg(msg(debug_messages, "Running"),
                      "Error: Executing external command failed")
             /\ LoopContinues
      /\ FailedCommandStep("PlayMedia") =>
           /\ debug_messages' = msg(debug_messages, "Error: ffprobe")
           /\ LoopContinues ]_vars

\* C14 witness: the OpenExecutable pushed by NavigateDown failed, left "Running"
\* and one error in the buffer, and the event queued behind it was handled in
\* the same update().
C14_FailedThenNextHandled ==
  /\ EventsOf(processed) = << "NavigateDown", "OpenExecutable", "SelectNext" >>
  /\ pc = "events"
  /\ outcome = Some("failure")
  /\ debug_messages = << "Running", "Error: Executing external command failed" >>

\* the step is the sweep that ends an update()
SweepStep == pc = "events" /\ events = <<>> /\ pc' = "display"

StillRunning(c) == c.status = "running"

\* C15: the sweep at the end of every update() leaves in the registry exactly
\* the children that are still running, in their original order, so every
\* child whose exit is observed is gone after the first sweep that follows
\* its exit; the sweep does not wait for a running child; and no step removes
\* a child that is still running.
C15_SweepKeepsRunning ==
  [][ /\ SweepStep =>
           /\ children' = SelectSeq(children, StillRunning)
           /\ \A j \in 1..Len(children') : children'[j].status = "running"
      /\ \A i \in 1..Len(children) :
           children[i].status = "running" =>
             \E j \in 1..Len(children') : children'[j].pid = children[i].pid ]_vars

\* C15 witness: two players were spawned in two ticks; the first exited and
\* the sweep of the second tick removed it, reported it and kept the second,
\* which is still running.
C15_ExitedRemovedRunningKept ==
  /\ EventsOf(processed) = << "PlayMedia", "PlayMedia" >>
  /\ pc = "display"
  /\ Len(children) = 1
  /\ children[1].pid = 2
  /\ children[1].status = "running"
  /\ debug_messages[Len(debug_messages)] = "Child exited"

\* C16: media whose probed duration is above the threshold is played in the
\* foreground, the event completing only after the player has exited; only
\* media at or below the threshold is spawned detached and tracked, so every
\* child of the registry plays short media.
C16_OnlyShortMediaTracked ==
  \A i \in 1..Len(children) : children[i].media = "short"

\* C17: release and reclaim of the terminal are matched on every path: after
\* any event has been processed, a PlayMedia whose probe or spawn failed
\* included, the terminal is in interactive mode again.
C17_TerminalReclaimed == pc # "panicked" => terminal = "interactive"

\* ---------------------------------------------------------------------------
\* App::rows_to_print on its own: arg holds the fields it reads and its
\* parameter, ret its result
\* ---------------------------------------------------------------------------

rows_to_print_no_end(self, info_lines_len) ==
  LET rows_to_show == (self.height - 2) - self.debug_messages
      max_lines    == MaxOf(MaxOf(self.current_directory_contents,
                                  self.parent_directory_contents),
                            info_lines_len)
  IN  IF max_lines > rows_to_show
        THEN LET half == rows_to_show \div 2
             IN  IF UsizeLess(self.current_selection, half)
                   THEN << 0, rows_to_show >>
                   ELSE << self.current_selection - half,
                           self.current_selection + half >>
        ELSE << 0, max_lines >>

rows_to_print_unguarded(self, info_lines_len) ==
  LET rows_to_show == (self.height - 2) - self.debug_messages
      max_lines    == MaxOf(MaxOf(self.current_directory_contents,
                                  self.parent_directory_contents),
                            info_lines_len)
      half         == rows_to_show \div 2
  IN  IF UsizeLess(self.current_selection, half)
        THEN << 0, rows_to_show >>
        ELSE IF UsizeLess(max_lines - half, self.current_selection)
               THEN << max_lines - rows_to_show, max_lines >>
               ELSE << self.current_selection - half,
                       self.current_selection + half >>

\* App::rows_to_print; of debug_messages and of the two panes self holds the
\* lengths, which is all the function reads of them
rows_to_print(self, info_lines_len) ==
  LET rows_to_show == (self.height - 2) - self.debug_messages
      max_lines    == MaxOf(MaxOf(self.current_directory_contents,
                                  self.parent_directory_contents),
                            info_lines_len)
  IN  IF max_lines > rows_to_show
        THEN LET half == rows_to_show \div 2
             IN  IF UsizeLess(self.current_selection, half)
                   THEN << 0, rows_to_show >>
                   ELSE IF UsizeLess(max_lines - half, self.current_selection)
                          THEN << max_lines - rows_to_show, max_lines >>
                          ELSE << self.current_selection - half,
                                  self.current_selection + half >>
        ELSE << 0, max_lines >>

\* the states of the fields rows_to_print is called in: a height that leaves
\* height - 2 defined, no debug message yet, panes of any length, a preview
\* that is empty or longer than the panes, and a selection inside the rows
RowsInputs ==
  { [ self |-> [ height                     |-> h,
                 debug_messages             |-> Len(debug_messages),
                 current_directory_contents |-> c,
                 parent_directory_contents  |-> p,
                 current_selection          |-> s ],
      info_lines_len |-> i ] :
      h \in 2..MaxHeight, c \in 0..MaxLines, p \in 0..MaxLines,
      i \in { 0, MaxLines }, s \in 0..(MaxLines - 1) }

RowsInit ==
  /\ Constructed
  /\ current_directory = Root
  /\ arg \in { a \in RowsInputs :
                 \/ a.self.current_selection = 0
                 \/ a.self.current_selection <
                      MaxOf(MaxOf(a.self.current_directory_contents,
                                  a.self.parent_directory_contents),
                            a.info_lines_len) }
  /\ ret = NoneV

RowsCall ==
  /\ ret = NoneV
  /\ ret' = Some(rows_to_print(arg.self, arg.info_lines_len))
  /\ UNCHANGED << current_directory, current_selection, selected_item,
                  selection_info, current_directory_contents,
                  parent_directory_contents, should_run, directory_changed,
                  show_hidden, new_events, events, debug_messages, children,
                  terminal, pc, stamp, processed, keys, outcome,
                  classified, synthesized, key_read, arg >>

RowsSpec == RowsInit /\ [][RowsCall]_vars

\* the item count N, row capacity R and selection S of the call, and the
\* window it returned
RowsN == MaxOf(MaxOf(arg.self.current_directory_contents,
                     arg.self.parent_directory_contents),
               arg.info_lines_len)
RowsR == (arg.self.height - 2) - arg.self.debug_messages
RowsS == arg.self.current_selection
From == Unwrap(ret)[1]
To == Unwrap(ret)[2]

\* the guarantee of C18 for the window returned
WindowHoldsSelection ==
  /\ From <= RowsS /\ RowsS < To
  /\ To - From <= RowsR
  /\ 0 <= From
  /\ To <= RowsN

C19_ExactlyRRows ==
  (IsSome(ret) /\ RowsN > RowsR) => To - From = RowsR

HIRAGANA_BEG == 12352
HIRAGANA_END == 12447
KATAKANA_BEG == 12448
KATAKANA_END == 12543
KANJI_BEG == 19968
KANJI_END == 40879
FULLWIDTH_BEG == 65281
FULLWIDTH_END == 65376
\* U+2026, the character appended to a cut string, and the fill of {:<width$}
Ellipsis == 8230
Space == 32

is_char_between_char_range(ch, range_beg, range_end) ==
  IF ~(ch >= range_beg /\ ch <= range_end) THEN FALSE ELSE TRUE

is_wide(ch) ==
  LET is_kanji     == is_char_between_char_range(ch, KANJI_BEG, KANJI_END)
      is_katakana  == is_char_between_char_range(ch, KATAKANA_BEG, KATAKANA_END)
      is_hiragana  == is_char_between_char_range(ch, HIRAGANA_BEG, HIRAGANA_END)
      is_fullwidth == is_char_between_char_range(ch, FULLWIDTH_BEG, FULLWIDTH_END)
  IN  is_hiragana \/ is_katakana \/ is_kanji \/ is_fullwidth

\* input.chars().take(n)
Take(input, n) == SubSeq(input, 1, MinOf(n, Len(input)))

\* format!("{:<width$}", input): spaces up to width characters, never a cut
PadRight(input, width) ==
  input \o [i \in 1..(width - Len(input)) |-> Space]

Returned(text) == [panicked |-> FALSE, text |-> text]
Panicked == [panicked |-> TRUE, text |-> <<>>]

\* truncate_with_ellipsis.  A usize subtraction that underflows panics in a
\* build with overflow checks and wraps in one without: a wrapped width makes
\* the padding of format! run out of memory, a wrapped take keeps every
\* character.
truncate_with_ellipsis(input, max_length, overflow_checks) ==
  IF max_length < 3 THEN Returned(<< Ellipsis >>)
  ELSE LET chars_len  == Len(input)
           wide_chars == Len(SelectSeq(input, is_wide))
       IN  IF wide_chars > max_length
             THEN Panicked
             ELSE IF chars_len > max_length - wide_chars
                    THEN IF wide_chars > max_length - 1
                           THEN IF overflow_checks
                                  THEN Panicked
                                  ELSE Returned(input \o << Ellipsis >>)
                           ELSE Returned(Take(input, max_length - 1 - wide_chars)
                                           \o << Ellipsis >>)
                    ELSE Returned(PadRight(input, max_length - wide_chars))

\* a letter, a hiragana and a kanji
Chars == { 97, 12354, 26085 }

Strings == UNION { [1..n -> Chars] : n \in 0..MaxStr }

TruncInit ==
  /\ Constructed
  /\ current_directory = Root
  /\ arg \in [ input : Strings, max_length : 0..MaxBudget,
               overflow_checks : BOOLEAN ]
  /\ ret = NoneV

TruncCall ==
  /\ ret = NoneV
  /\ ret' = Some(truncate_with_ellipsis(arg.input, arg.max_length,
                                        arg.overflow_checks))
  /\ UNCHANGED << current_directory, current_selection, selected_item,
                  selection_info, current_directory_contents,
                  parent_directory_contents, should_run, directory_changed,
                  show_hidden, new_events, events, debug_messages, children,
                  terminal, pc, stamp, processed, keys, outcome,
                  classified, synthesized, key_read, arg >>

TruncSpec == TruncInit /\ [][TruncCall]_vars

\* the visual width of a string: a wide character counts 2, any other 1
VisualWidth(s) == Len(s) + Len(SelectSeq(s, is_wide))

\* C21: for every string of width-1 and width-2 characters and every budget
\* >= 3, truncate_with_ellipsis returns, without arithmetic underflow, a
\* string of visual width at most the budget, also when the string holds as
\* many wide characters as the budget or more.
C21_WidthWithinBudget ==
  (IsSome(ret) /\ arg.max_length >= 3) =>
    /\ ~Unwrap(ret).panicked
    /\ VisualWidth(Unwrap(ret).text) <= arg.max_length

\* the longest prefix of s whose visual width is at most w
RECURSIVE LongestPrefix(_, _)
LongestPrefix(s, w) ==
  IF s = <<>> THEN <<>>
  ELSE LET first == IF is_wide(Head(s)) THEN 2 ELSE 1
       IN  IF first > w THEN <<>>
           ELSE << Head(s) >> \o LongestPrefix(Tail(s), w - first)

\* C22: a string wider than the budget is cut to its longest prefix of
\* visual width <= budget - 1 followed by one ellipsis, wherever its wide
\* characters sit, and a string of visual width at most the budget is
\* returned whole, padded with spaces to a visual width of exactly the budget
\* (checked for budgets >= 3 and fewer wide characters than the budget, where
\* no subtraction underflows).
C22_FixedWidthCells ==
  ( /\ IsSome(ret)
    /\ arg.max_length >= 3
    /\ Len(SelectSeq(arg.input, is_wide)) < arg.max_length ) =>
    /\ ~Unwrap(ret).panicked
    /\ IF VisualWidth(arg.input) > arg.max_length
         THEN Unwrap(ret).text =
                LongestPrefix(arg.input, arg.max_length - 1) \o << Ellipsis >>
         ELSE /\ SubSeq(Unwrap(ret).text, 1, Len(arg.input)) = arg.input
              /\ \A i \in (Len(arg.input) + 1)..Len(Unwrap(ret).text) :
                   Unwrap(ret).text[i] = Space
              /\ VisualWidth(Unwrap(ret).text) = arg.max_length

\* ---------------------------------------------------------------------------
\* directory_contents on its own: arg holds the children of the directory
\* and show_hidden, ret the listing
\* ---------------------------------------------------------------------------

\* names a child can have: "B", "a", "ab", ".g", and the bytes 2E FF
ChildNames == { <<66>>, n_a, <<97, 98>>, n_git, << Dot, 255 >> }

\* the sets of children a directory can hold: no two of the same name
Directories ==
  { S \in SUBSET [ ftype : { "File", "Directory", "Link" }, name : ChildNames ] :
      /\ Cardinality(S) <= MaxEntries
      /\ \A x, y \in S : x.name = y.name => x = y }

ListInit ==
  /\ Constructed
  /\ current_directory = Root
  /\ arg \in [ children : Directories, show_hidden : BOOLEAN ]
  /\ ret = NoneV

ListCall ==
  /\ ret = NoneV
  /\ ret' = Some(list_entries(arg.children, arg.show_hidden))
  /\ UNCHANGED << current_directory, current_selection, selected_item,
                  selection_info, current_directory_contents,
                  parent_directory_contents, should_run, directory_changed,
                  show_hidden, new_events, events, debug_messages, children,
                  terminal, pc, stamp, processed, keys, outcome,
                  classified, synthesized, key_read, arg >>

ListSpec == ListInit /\ [][ListCall]_vars

\* the children the listing is to hold, by the first byte of their names
Expected ==
  { c \in arg.children : arg.show_hidden \/ c.name[1] # Dot }

\* C23: the listing holds every directory before every non-directory, each
\* group in ascending byte order of the names; with show_hidden = false it
\* holds no entry whose name begins with '.' and every other child, with
\* show_hidden = true every child.
C23_SortedAndFiltered ==
  IsSome(ret) =>
    LET listing == Unwrap(ret)
    IN  /\ Len(listing) = Cardinality(Expected)
        /\ { listing[i] : i \in 1..Len(listing) } =
             { [ftype |-> c.ftype, name |-> to_string_lossy(c.name)] :
               c \in Expected }
        /\ \A i, j \in 1..Len(listing) :
             i < j =>
               \/ listing[i].ftype = "Directory" /\ listing[j].ftype # "Directory"
               \/ /\ (listing[i].ftype = "Directory") =
                       (listing[j].ftype = "Directory")
                  /\ NameLess(listing[i].name, listing[j].name)
        /\ ~arg.show_hidden =>
             \A i \in 1..Len(listing) : listing[i].name[1] # Dot

\* ---------------------------------------------------------------------------
\* info.rs: InfoType::new on its own.  arg is a regular file: its name, its
\* bytes and whether File::open succeeds; ret the classification
\* ---------------------------------------------------------------------------

\* the extensions from_extension knows as Text: rs md txt toml lock ini
TextExtensions ==
  { << 114, 115 >>, << 109, 100 >>, << 116, 120, 116 >>, << 116, 111, 109, 108 >>, << 108, 111, 99, 107 >>, << 105, 110, 105 >> }

\* exe
ExeExtension == << 101, 120, 101 >>

\* KNOWN_NAMES: README and .gitignore, both Text
KNOWN_NAMES == { << 82, 69, 65, 68, 77, 69 >>, << 46, 103, 105, 116, 105, 103, 110, 111, 114, 101 >> }

\* b"\x7FELF"
ElfMagic == << 127, 69, 76, 70 >>

\* Path::extension: what follows the last '.' of the file name, nothing when
\* the name has no '.' or only a leading one
extension(file_name) ==
  LET dots == { i \in 1..Len(file_name) : file_name[i] = Dot }
  IN  IF dots = {} \/ dots = { 1 } THEN NoneV
      ELSE LET last == CHOOSE i \in dots : \A j \in dots : j <= i
           IN  Some(SubSeq(file_name, last + 1, Len(file_name)))

\* std::str::from_utf8(..).is_ok(); the bytes used here are ASCII and 0xFF
from_utf8_is_ok(bytes) == \A i \in 1..Len(bytes) : bytes[i] < 128

\* probably_valid_utf: validity of the first 1024 bytes
probably_valid_utf(file) ==
  IF file.opens
    THEN from_utf8_is_ok(SubSeq(file.bytes, 1, MinOf(1024, Len(file.bytes))))
    ELSE FALSE

from_extension(ext) ==
  IF ext \in TextExtensions THEN "Text"
  ELSE IF ext = ExeExtension THEN "Executable"
  ELSE "Unknown"

from_contents(file) ==
  IF file.opens
    THEN LET bytes_read == MinOf(4, Len(file.bytes))
         IN  IF bytes_read < 4 THEN "Unknown"
             ELSE IF SubSeq(file.bytes, 1, 4) = ElfMagic THEN "Executable"
             ELSE IF probably_valid_utf(file) THEN "Text"
             ELSE "Unknown"
    ELSE "Unknown"

\* InfoType::new
InfoTypeNew(file) ==
  IF IsSome(extension(file.name))
    THEN from_extension(Unwrap(extension(file.name)))
    ELSE IF file.name \in KNOWN_NAMES THEN "Text"
    ELSE from_contents(file)

\* main.rs, a.exe, lib.so, << 82, 69, 65, 68, 77, 69 >>, .gitignore and prog
FileNames ==
  { << 109, 97, 105, 110, 46, 114, 115 >>, << 97, 46, 101, 120, 101 >>, << 108, 105, 98, 46, 115, 111 >>, << 82, 69, 65, 68, 77, 69 >>, << 46, 103, 105, 116, 105, 103, 110, 111, 114, 101 >>, << 112, 114, 111, 103 >> }

\* bytes a file is made of: those of the ELF magic and 0xFF
FileBytes == { 127, 69, 76, 70, 255 }

ClassInit ==
  /\ Constructed
  /\ current_directory = Root
  /\ arg \in [ name  : FileNames,
               bytes : UNION { [1..n -> FileBytes] : n \in 0..MaxFile },
               opens : BOOLEAN ]
  /\ ret = NoneV

ClassCall ==
  /\ ret = NoneV
  /\ ret' = Some(InfoTypeNew(arg))
  /\ UNCHANGED << current_directory, current_selection, selected_item,
                  selection_info, current_directory_contents,
                  parent_directory_contents, should_run, directory_changed,
                  show_hidden, new_events, events, debug_messages, children,
                  terminal, pc, stamp, processed, keys, outcome,
                  classified, synthesized, key_read, arg >>

ClassSpec == ClassInit /\ [][ClassCall]_vars

\* the file is decided by neither table: its extension, if it has one, is
\* not in the extension table and its name is not a well-known one
DecidedByNoTable ==
  /\ IsSome(extension(arg.name)) =>
       Unwrap(extension(arg.name)) \notin TextExtensions \cup { ExeExtension }
  /\ arg.name \notin KNOWN_NAMES

HasElfMagic == Len(arg.bytes) >= 4 /\ SubSeq(arg.bytes, 1, 4) = ElfMagic

\* C24: a path ending in .rs is Text; a readable regular file decided by
\* neither table whose first 4 bytes are the ELF magic is Executable, also
\* when it carries an extension that is not in the table; a binary that is
\* not UTF-8, with no recognized extension, name or magic, is Unknown.
C24_ExtensionNameContent ==
  (IsSome(ret) /\ arg.opens) =>
    /\ extension(arg.name) = Some(<< 114, 115 >>) => Unwrap(ret) = "Text"
    /\ (DecidedByNoTable /\ HasElfMagic) => Unwrap(ret) = "Executable"
    /\ (DecidedByNoTable /\ ~HasElfMagic /\ ~from_utf8_is_ok(arg.bytes)) =>
         Unwrap(ret) = "Unknown"

\* C25: a readable file that reaches content sniffing and has no ELF magic
\* is Text when its first 1KB is valid UTF-8 and Unknown when not, whatever
\* its length, files shorter than 4 bytes and empty files included.
C25_SniffedByUtf8Validity ==
  ( /\ IsSome(ret) /\ arg.opens
    /\ ~IsSome(extension(arg.name)) /\ arg.name \notin KNOWN_NAMES
    /\ ~HasElfMagic ) =>
    Unwrap(ret) =
      IF from_utf8_is_ok(SubSeq(arg.bytes, 1, MinOf(1024, Len(arg.bytes))))
        THEN "Text" ELSE "Unknown"

\* ---------------------------------------------------------------------------
\* the remaining properties of the tick loop (Spec)
\* ---------------------------------------------------------------------------

\* C26: the classification of the selection is recomputed only when the
\* selection index changes: a SelectNext or SelectPrevious that leaves the
\* index where it was (clamped at a boundary) computes no classification,
\* one that moves it computes at most one, and display() computes none.
C26_RecomputedOnlyOnChange ==
  [][ /\ \A e \in { "SelectNext", "SelectPrevious" } :
           HandledStep(e) =>
             IF current_selection' = current_selection
               THEN classified' = classified
               ELSE classified' \in { classified, classified + 1 }
      /\ pc = "display" => classified' = classified ]_vars

\* ---------------------------------------------------------------------------
\* input.rs: the keybinding table on its own.  arg holds the table and the
\* log of the add_keybinding calls that built it
\* ---------------------------------------------------------------------------

\* HashMap::new
NoKeybindings == [ c \in {} |-> "Close" ]

add_keybinding_kept(keybindings, key, modifiers, event) ==
  IF << key, modifiers >> \in DOMAIN keybindings
    THEN keybindings
    ELSE [ c \in DOMAIN keybindings \cup { << key, modifiers >> } |->
             IF c = << key, modifiers >> THEN event ELSE keybindings[c] ]

\* App::add_keybinding: HashMap::insert
add_keybinding(keybindings, key, modifiers, event) ==
  [ c \in DOMAIN keybindings \cup { << key, modifiers >> } |->
      IF c = << key, modifiers >> THEN event ELSE keybindings[c] ]

\* App::resolve_keybinding on a table: HashMap::get of the exact pair
resolve_in(keybindings, key, modifiers) ==
  IF << key, modifiers >> \in DOMAIN keybindings
    THEN Some(keybindings[<< key, modifiers >>])
    ELSE NoneV

default_keybindings ==
  << << "Esc", "NONE" >>, << "c", "CONTROL" >>,
     << "a", "NONE" >>, << "d", "NONE" >>, << "w", "NONE" >>, << "s", "NONE" >>,
     << "Left", "NONE" >>, << "Right", "NONE" >>, << "Up", "NONE" >>,
     << "Down", "NONE" >>,
     << "h", "NONE" >>, << "f", "NONE" >>, << "p", "NONE" >>, << "q", "NONE" >> >>

events_for_default_keybindings ==
  << "Close", "Close",
     "NavigateUp", "NavigateDown", "SelectPrevious", "SelectNext",
     "NavigateUp", "NavigateDown", "SelectPrevious", "SelectNext",
     "ToggleShowHidden", "OpenImage", "PlayMedia", "DebugEvent" >>

\* the calls add_default_keybindings makes: the two vectors zipped
DefaultCalls ==
  [ i \in 1..MinOf(Len(default_keybindings),
                   Len(events_for_default_keybindings)) |->
      [ key       |-> default_keybindings[i][1],
        modifiers |-> default_keybindings[i][2],
        event     |-> events_for_default_keybindings[i] ] ]

\* a table after the calls of the log, made in order
RECURSIVE AddAll(_, _)
AddAll(keybindings, calls) ==
  IF calls = <<>> THEN keybindings
  ELSE AddAll(add_keybinding(keybindings, Head(calls).key,
                             Head(calls).modifiers, Head(calls).event),
              Tail(calls))

\* App::add_default_keybindings
add_default_keybindings(keybindings) == AddAll(keybindings, DefaultCalls)

\* the pairs and events later calls bind
BoundLater == { << "c", "CONTROL" >>, << "c", "NONE" >>, << "Left", "NONE" >> }
EventsLater == { "Close", "NavigateUp", "DebugEvent" }

\* a fresh table, or the table App::new leaves after the defaults
KeyInit ==
  /\ Constructed
  /\ current_directory = Root
  /\ \/ arg = [ keybindings |-> NoKeybindings, log |-> <<>>, defaults |-> FALSE ]
     \/ arg = [ keybindings |-> add_default_keybindings(NoKeybindings),
                log |-> DefaultCalls, defaults |-> TRUE ]
  /\ ret = NoneV

AddKeybinding ==
  /\ Len(arg.log) < MaxAdds + (IF arg.defaults THEN Len(DefaultCalls) ELSE 0)
  /\ \E c \in BoundLater, e \in EventsLater :
       arg' = [ arg EXCEPT
                  !.keybindings = add_keybinding(arg.keybindings, c[1], c[2], e),
                  !.log = Append(arg.log, [ key |-> c[1], modifiers |-> c[2],
                                            event |-> e ]) ]
  /\ UNCHANGED << current_directory, current_selection, selected_item,
                  selection_info, current_directory_contents,
                  parent_directory_contents, should_run, directory_changed,
                  show_hidden, new_events, events, debug_messages, children,
                  terminal, pc, stamp, processed, keys, outcome,
                  classified, synthesized, key_read, ret >>

KeySpec == KeyInit /\ [][AddKeybinding]_vars

\* the calls of the log that bound the pair
CallsFor(key, modifiers) ==
  { i \in 1..Len(arg.log) :
      arg.log[i].key = key /\ arg.log[i].modifiers = modifiers }

\* every pair that is looked up: those ever bound, and two never bound
Pairs ==
  { default_keybindings[i] : i \in 1..Len(default_keybindings) }
    \cup BoundLater \cup { << "z", "NONE" >>, << "a", "CONTROL" >> }

\* C27: after any sequence of add_keybinding calls resolve_keybinding returns
\* the event of the most recent call for exactly that pair, and no event for
\* a pair never bound; with the default bindings alone each arrow key
\* resolves like its letter (Left/a NavigateUp, Right/d NavigateDown, Up/w
\* SelectPrevious, Down/s SelectNext) and Esc and Ctrl+C resolve to Close.
C27_LastBindingWins ==
  /\ \A c \in Pairs :
       resolve_in(arg.keybindings, c[1], c[2]) =
         IF CallsFor(c[1], c[2]) = {} THEN NoneV
         ELSE Some(arg.log[CHOOSE i \in CallsFor(c[1], c[2]) :
                             \A j \in CallsFor(c[1], c[2]) : j <= i].event)
  /\ (arg.defaults /\ Len(arg.log) = Len(DefaultCalls)) =>
       /\ resolve_in(arg.keybindings, "Left", "NONE") = Some("NavigateUp")
       /\ resolve_in(arg.keybindings, "a", "NONE") = Some("NavigateUp")
       /\ resolve_in(arg.keybindings, "Right", "NONE") = Some("NavigateDown")
       /\ resolve_in(arg.keybindings, "d", "NONE") = Some("NavigateDown")
       /\ resolve_in(arg.keybindings, "Up", "NONE") = Some("SelectPrevious")
       /\ resolve_in(arg.keybindings, "w", "NONE") = Some("SelectPrevious")
       /\ resolve_in(arg.keybindings, "Down", "NONE") = Some("SelectNext")
       /\ resolve_in(arg.keybindings, "s", "NONE") = Some("SelectNext")
       /\ resolve_in(arg.keybindings, "Esc", "NONE") = Some("Close")
       /\ resolve_in(arg.keybindings, "c", "CONTROL") = Some("Close")

\* C27 witness: after the defaults Ctrl+C was bound to DebugEvent and then to
\* NavigateUp; it resolves to NavigateUp, and plain c, never bound, to nothing.
C27_Rebound ==
  /\ arg.defaults
  /\ Len(arg.log) = Len(DefaultCalls) + 2
  /\ arg.log[Len(DefaultCalls) + 1] =
       [ key |-> "c", modifiers |-> "CONTROL", event |-> "DebugEvent" ]
  /\ arg.log[Len(DefaultCalls) + 2] =
       [ key |-> "c", modifiers |-> "CONTROL", event |-> "NavigateUp" ]
  /\ resolve_in(arg.keybindings, "c", "CONTROL") = Some("NavigateUp")
  /\ resolve_in(arg.keybindings, "c", "NONE") = NoneV

\* ---------------------------------------------------------------------------
\* update_window_size and the row capacity on their own.  arg is the size
\* the terminal reports, the number of debug messages and the build
\* ---------------------------------------------------------------------------

\* u16 arithmetic: a subtraction that wraps
U16 == 65536
WrappingSub(a, b) == (a - b + U16) % U16

\* App::update_window_size when window_size() answers.  columns - 5 and
\* rows - 2 are u16 subtractions: one that underflows panics in a build with
\* overflow checks and wraps in one without.
update_window_size(new_size, overflow_checks) ==
  IF overflow_checks /\ (new_size.columns < 5 \/ new_size.rows < 2)
    THEN [ panicked |-> TRUE, wrapped |-> FALSE, width |-> 0, height |-> 0 ]
    ELSE [ panicked |-> FALSE,
           wrapped  |-> new_size.columns < 5 \/ new_size.rows < 2,
           width    |-> MaxOf(80, WrappingSub(new_size.columns, 5)),
           height   |-> MaxOf(15, WrappingSub(new_size.rows, 2)) ]

\* the first line of App::rows_to_print
rows_to_show(height, debug_messages_len) == (height - 2) - debug_messages_len

SizeInit ==
  /\ Constructed
  /\ current_directory = Root
  /\ arg \in [ new_size : [ columns : 0..MaxColumns, rows : 0..MaxRows ],
               debug_messages : 0..6,
               overflow_checks : BOOLEAN ]
  /\ ret = NoneV

SizeCall ==
  /\ ret = NoneV
  /\ ret' = Some(update_window_size(arg.new_size, arg.overflow_checks))
  /\ UNCHANGED << current_directory, current_selection, selected_item,
                  selection_info, current_directory_contents,
                  parent_directory_contents, should_run, directory_changed,
                  show_hidden, new_events, events, debug_messages, children,
                  terminal, pc, stamp, processed, keys, outcome,
                  classified, synthesized, key_read, arg >>

SizeSpec == SizeInit /\ [][SizeCall]_vars

\* C28: for every size the terminal reports, fewer than 2 rows or fewer than
\* 5 columns included, and every number of debug messages, update_window_size
\* and the row capacity are computed without underflow and give height >= 15,
\* width >= 80 and a capacity height - 2 - messages of at least 7.
C28_FlooredWithoutUnderflow ==
  IsSome(ret) =>
    /\ ~Unwrap(ret).panicked
    /\ ~Unwrap(ret).wrapped
    /\ Unwrap(ret).height >= 15
    /\ Unwrap(ret).width >= 80
    /\ rows_to_show(Unwrap(ret).height, arg.debug_messages) >= 7

\* C29: after every update() the stored classification describes the entry at
\* the current selection index; when no item is selected (the listing has not
\* changed since and nothing is under the index) no classification remains
C29_InfoOfSelectedItem ==
  (pc = "display" /\ ~directory_changed /\ ~IsSome(selected_item))
    => ~IsSome(selection_info)

\* the viewer event at the head of the local queue was pushed by a NavigateDown
SynthesizedPending(s) ==
  pc = "events" /\ events # <<>> /\ PendingEvent.id = s.id

ViewerEvents == { "OpenImage", "OpenText", "OpenExecutable", "PlayMedia" }

\* the queued event was pushed by a NavigateDown, and is a viewer event
Synthesized(e) ==
  e.ev \in ViewerEvents /\ \E s \in synthesized : s.id = e.id

\* the step ends an update() of a tick in which input() pushed no key event
QuietUpdateEnds == pc = "events" /\ pc' = "display" /\ ~key_read

\* C31: with no new input the pending queue is empty after at most two
\* update() calls and stays empty: an update() leaves at most the one viewer
\* event a NavigateDown pushed; an update() of a tick without a key leaves the
\* queue empty; only NavigateDown pushes; every step of the event loop that
\* stays in the loop shortens the drained queue or leaves the queues alone
C31_QueueDrains ==
  /\ [](pc = "display" =>
          /\ Len(new_events) <= 1
          /\ \A i \in 1..Len(new_events) : Synthesized(new_events[i]))
  /\ [][ QuietUpdateEnds => new_events' = <<>> ]_vars
  /\ [][ (pc = "events" /\ events # <<>> /\ PendingEvent.ev # "NavigateDown")
           => new_events' = new_events ]_vars
  /\ [][ (pc = "events" /\ pc' = "events")
           => \/ Len(events') < Len(events)
              \/ UNCHANGED << events, new_events, processed >> ]_vars

\* an update() of a tick without a key has handled the viewer event pushed in
\* the update() before, and is about to end with both queues empty
C31_SecondUpdateDrained ==
  /\ pc = "events" /\ ~key_read /\ events = <<>> /\ new_events = <<>>
  /\ processed # <<>> /\ Synthesized(LastHandled)

====
